---- MODULE Spec2Model ----
(***************************************************************************)
(* Event fingerprint grouping with time-windowed suppression.              *)
(*                                                                         *)
(* Two engines of the repository are modelled, each as the object it is    *)
(* in the source:                                                          *)
(*   AlertDeduplicator  (src/03-observability/alert_deduplicator.py)       *)
(*   LogClassifier      (src/03-observability/log_classifier.py)           *)
(*                                                                         *)
(* Timestamps are integers (seconds); a datetime difference is an integer  *)
(* difference.  Text that the code inspects character by character (log    *)
(* messages) is a sequence of one-character strings.                       *)
(***************************************************************************)
EXTENDS Integers, Sequences, FiniteSets, TLC

VARIABLES
    groups,            \* AlertDeduplicator.groups : signature -> AlertGroup
    groups_order,      \* the keys of AlertDeduplicator.groups in insertion order
    suppressed_count,  \* AlertDeduplicator.suppressed_count
    clusters,          \* LogClassifier.clusters   : signature -> ErrorCluster
    clusters_order,    \* the keys of LogClassifier.clusters in insertion order
    noise_count,       \* LogClassifier.noise_count
    call,              \* the last call made: [op, arg, ret]
    alert_members,     \* history: signature -> the [event, ret] of each alert processed
    log_members,       \* history: return value -> the [event, ret] of each entry classified
    steps,             \* history: number of calls made so far
    threads,           \* concurrent callers: thread -> its position inside process_alert
    circuits,          \* CircuitBreakerTester.circuits : the list of CircuitBreaker
    simulated,         \* history: per circuit, the failures simulated since it was last CLOSED with count 0
    manager            \* RollbackManager : [versions, rollback_history, current_version]

vars == <<groups, groups_order, suppressed_count, clusters, clusters_order, noise_count,
          call, alert_members, log_members, steps, threads,
          circuits, simulated, manager>>

(***************************************************************************)
(* Bounds of the model.                                                    *)
(***************************************************************************)
MaxEvents == 3     \* calls made in a run of Spec
MaxStorm == 4      \* calls made in a run of StormSpec (one pattern firing repeatedly)
MaxFingerprint == 2 \* calls made in a run of FingerprintSpec (events with all their fields)
MaxPieces == 3     \* pieces a message of NormalizeSpec is put together from
MaxQueryAlerts == 3 \* alerts processed in a run of ActiveSpec
MaxQueryLogs == 6  \* log entries classified in a run of ActionableSpec
MaxConcurrent == 3 \* calls made by the producers of ConcurrentSpec together
MaxMalformed == 3  \* calls with events that may lack a field
MaxViews == 3      \* events processed in a run of ViewsSpec
MaxSliding == 4    \* alerts of one continuously firing pattern in a run of SlidingSpec
MaxFailures == 11  \* failures a circuit of BreakerSpec counts at most
MaxRollbackCalls == 4 \* calls made on the manager in a run of RollbackSpec

(***************************************************************************)
(* Small helpers.                                                          *)
(***************************************************************************)
Range(s) == {s[i] : i \in 1..Len(s)}

Max(S) == CHOOSE x \in S : \A y \in S : y <= x

Min(S) == CHOOSE x \in S : \A y \in S : x <= y

Put(d, k, v) == [x \in DOMAIN d \cup {k} |-> IF x = k THEN v ELSE d[x]]

(***************************************************************************)
(* AlertSeverity, Alert.                                                   *)
(***************************************************************************)
AlertSeverity == {"critical", "warning", "info"}

\* Order of the severities, Critical highest (the enum itself is unordered).
SeverityRank(sev) ==
    CASE sev = "critical" -> 3
      [] sev = "warning" -> 2
      [] sev = "info" -> 1

\* The alerts fed to the engine: every combination of the given field values.
\* id, message and labels are carried by an Alert but never read by
\* process_alert; the message is the one the generator pairs with the name.
AlertMessage(name) ==
    CASE name = "HighErrorRate" -> "Error rate > 5%"
      [] name = "HighLatency" -> "P99 latency > 500ms"

Alerts(names, sevs, svcs, times) ==
    {[name |-> n, severity |-> s, service |-> v, message |-> AlertMessage(n),
      timestamp |-> t] : n \in names, s \in sevs, v \in svcs, t \in times}

(***************************************************************************)
(* AlertDeduplicator.                                                      *)
(***************************************************************************)
\* timedelta(minutes=5), in seconds
SUPPRESSION_WINDOW == 300

\* hashlib.md5(text.encode()).hexdigest()[:12] on the fingerprints the model
\* feeds it (the digests are the ones md5 gives).
Md5Hex12(text) ==
    CASE text = "HighErrorRate|critical" -> "ef2e0d8b2bdf"
      [] text = "HighErrorRate|warning" -> "68041ba983e3"
      [] text = "HighErrorRate|info" -> "856701f4f5e2"
      [] text = "HighLatency|critical" -> "e0e954bfca14"
      [] text = "HighLatency|warning" -> "8bbb4afd7ca8"
      [] text = "HighLatency|info" -> "fd9645662b9c"
      [] text = "DB timeout after 100ms" -> "ca31b03ef736"
      [] text = "DB timeout after 250ms" -> "9fba53d03e0b"
      [] text = "DB timeout after <NUM>ms" -> "6b604bce819c"
      [] text = "health check passed" -> "fe210b9b3f3e"
      [] text = "unexpected EOF" -> "ca43b7998229"
      [] text = "API request failed: status <NUM>" -> "e85aad1411e8"
      [] text = "API request failed: status 500" -> "1bcfcb752fbf"
      [] text = "API request failed: status 404" -> "ed873b7435fa"
      [] text = "HighErrorRate|critical|api" -> "169c3581b486"
      [] text = "HighErrorRate|critical|auth" -> "9959d3aea25e"
      [] text = "HighErrorRate|warning|api" -> "0640ddd5e1cf"
      [] text = "HighErrorRate|warning|auth" -> "e9b5acb2f938"
      [] text = "None|critical" -> "74e85c49a5dc"

GetSignatureWithService(alert) ==
    LET fingerprint == alert.name \o "|" \o alert.severity \o "|" \o alert.service
    IN  Md5Hex12(fingerprint)

_get_signature(alert) ==
    LET fingerprint == alert.name \o "|" \o alert.severity
    IN  Md5Hex12(fingerprint)

\* time_since_last < self.SUPPRESSION_WINDOW
WithinWindowEitherWay(group, alert) ==
    LET time_since_last == alert.timestamp - group.last_seen
    IN  /\ time_since_last < SUPPRESSION_WINDOW
        /\ -time_since_last < SUPPRESSION_WINDOW

WithinWindowOfFirst(group, alert) ==
    LET time_since_first == alert.timestamp - group.first_seen
    IN  time_since_first < SUPPRESSION_WINDOW

WithinWindowOfAnyGroup(group, alert) ==
    \E s \in DOMAIN groups : alert.timestamp - groups[s].last_seen < SUPPRESSION_WINDOW

WithinWindowLe(group, alert) ==
    alert.timestamp - group.last_seen <= SUPPRESSION_WINDOW

WithinWindow(group, alert) ==
    LET time_since_last == alert.timestamp - group.last_seen
    IN  time_since_last < SUPPRESSION_WINDOW

SuppressedKeepsLatest(group, alert) ==
    [group EXCEPT
        !.count = @ + 1,
        !.last_seen = Max({@, alert.timestamp}),
        !.services = IF alert.service \in Range(@) THEN @ ELSE Append(@, alert.service),
        !.alerts = Append(@, alert)]

\* The branch taken when the alert falls within the window.
Suppressed(group, alert) ==
    [group EXCEPT
        !.count = @ + 1,
        !.last_seen = alert.timestamp,
        !.services = IF alert.service \in Range(@) THEN @ ELSE Append(@, alert.service),
        !.alerts = Append(@, alert)]

\* The branch taken when the window has expired.
RolledOverReset(group, alert) ==
    [group EXCEPT
        !.count = 1,
        !.last_seen = alert.timestamp,
        !.alerts = Append(@, alert)]

RolledOverReplaced(group, alert) ==
    [signature |-> group.signature,
     name |-> alert.name,
     severity |-> alert.severity,
     count |-> 1,
     first_seen |-> alert.timestamp,
     last_seen |-> alert.timestamp,
     services |-> <<alert.service>>,
     alerts |-> <<alert>>]

RolledOverNoCount(group, alert) ==
    [group EXCEPT
        !.last_seen = alert.timestamp,
        !.alerts = Append(@, alert)]

RolledOver(group, alert) ==
    [group EXCEPT
        !.count = @ + 1,
        !.last_seen = alert.timestamp,
        !.alerts = Append(@, alert)]

\* The group made for a signature seen for the first time.
NewAlertGroupNoService(signature, alert) ==
    [signature |-> signature,
     name |-> alert.name,
     severity |-> alert.severity,
     count |-> 1,
     first_seen |-> alert.timestamp,
     last_seen |-> alert.timestamp,
     services |-> <<>>,
     alerts |-> <<alert>>]

NewAlertGroup(signature, alert) ==
    [signature |-> signature,
     name |-> alert.name,
     severity |-> alert.severity,
     count |-> 1,
     first_seen |-> alert.timestamp,
     last_seen |-> alert.timestamp,
     services |-> <<alert.service>>,
     alerts |-> <<alert>>]

ProcessAlertAlwaysSent(alert) == TRUE

\* What the call returns: True if the alert should be sent.
process_alert_returns(alert) ==
    LET signature == _get_signature(alert)
    IN  IF signature \in DOMAIN groups
        THEN ~WithinWindow(groups[signature], alert)
        ELSE TRUE

Record(members, signature, event, ret) ==
    Put(members, signature,
        Append(IF signature \in DOMAIN members THEN members[signature] ELSE <<>>,
               [event |-> event, ret |-> ret]))

process_alert(alert) ==
    LET signature == _get_signature(alert)
        ret == process_alert_returns(alert)
    IN  /\ IF signature \in DOMAIN groups
           THEN LET group == groups[signature]
                IN  IF WithinWindow(group, alert)
                    THEN /\ groups' = [groups EXCEPT ![signature] = Suppressed(group, alert)]
                         /\ suppressed_count' = suppressed_count + 1
                         /\ UNCHANGED groups_order
                    ELSE /\ groups' = [groups EXCEPT ![signature] = RolledOver(group, alert)]
                         /\ UNCHANGED <<suppressed_count, groups_order>>
           ELSE /\ groups' = Put(groups, signature, NewAlertGroup(signature, alert))
                /\ groups_order' = Append(groups_order, signature)
                /\ UNCHANGED suppressed_count
        /\ call' = [op |-> "process_alert", arg |-> alert, ret |-> ret]
        /\ alert_members' = Record(alert_members, signature, alert, ret)
        /\ steps' = steps + 1
        /\ UNCHANGED <<clusters, clusters_order, noise_count, log_members, threads,
                   circuits, simulated, manager>>

(***************************************************************************)
(* Text: characters, str.lower(), substring search.                        *)
(***************************************************************************)
UpperCase == <<"A","B","C","D","E","F","G","H","I","J","K","L","M","N","O","P","Q","R","S","T","U","V","W","X","Y","Z">>

LowerCase == <<"a","b","c","d","e","f","g","h","i","j","k","l","m","n","o","p","q","r","s","t","u","v","w","x","y","z">>

Digit == {"0","1","2","3","4","5","6","7","8","9"}

HexDigit == Digit \cup {"a","b","c","d","e","f"}

WordChar == Digit \cup Range(UpperCase) \cup Range(LowerCase) \cup {"_"}

\* str.lower() of one character, of a text
LowerChar(c) ==
    IF c \in Range(UpperCase)
    THEN LowerCase[CHOOSE i \in 1..Len(UpperCase) : UpperCase[i] = c]
    ELSE c

Lower(s) == [i \in 1..Len(s) |-> LowerChar(s[i])]

\* the str a sequence of characters spells
RECURSIVE Text(_)
Text(s) == IF s = <<>> THEN "" ELSE Head(s) \o Text(Tail(s))

\* re.search(p, s) for a pattern p without metacharacters
Search(p, s) ==
    \E i \in 1..(Len(s) - Len(p) + 1) : SubSeq(s, i, i + Len(p) - 1) = p

(***************************************************************************)
(* Regular expressions of NORMALIZE_PATTERNS: a pattern is a sequence of   *)
(* tokens, matched left to right with the backtracking order of re.        *)
(***************************************************************************)
D(n) == [kind |-> "class", cls |-> "d", n |-> n, ch |-> ""]    \* \d{n}

X(n) == [kind |-> "class", cls |-> "x", n |-> n, ch |-> ""]    \* [0-9a-f]{n}

DPlus == [kind |-> "plus", cls |-> "d", n |-> 0, ch |-> ""]    \* \d+

L(c) == [kind |-> "lit", cls |-> "", n |-> 1, ch |-> c]        \* a literal character

B == [kind |-> "b", cls |-> "", n |-> 0, ch |-> ""]            \* \b

InClass(cls, c) == IF cls = "d" THEN c \in Digit ELSE c \in HexDigit

IsWordAt(s, i) == i >= 1 /\ i <= Len(s) /\ s[i] \in WordChar

\* \b at the gap before position i
WordBoundary(s, i) == IsWordAt(s, i - 1) # IsWordAt(s, i)

\* length of the run of cls characters that starts at position i
RECURSIVE RunLen(_, _, _)
RunLen(cls, s, i) ==
    IF i <= Len(s) /\ InClass(cls, s[i]) THEN 1 + RunLen(cls, s, i + 1) ELSE 0

\* Where the match of pat[k..] that starts at position i ends (the position
\* after its last character), 0 if there is none.  A greedy + takes the
\* longest run with which the rest of the pattern still matches.
RECURSIVE MatchEnd(_, _, _, _)
MatchEnd(pat, k, s, i) ==
    IF k > Len(pat) THEN i
    ELSE LET t == pat[k] IN
         CASE t.kind = "b" ->
                IF WordBoundary(s, i) THEN MatchEnd(pat, k + 1, s, i) ELSE 0
           [] t.kind = "lit" ->
                IF i <= Len(s) /\ s[i] = t.ch THEN MatchEnd(pat, k + 1, s, i + 1) ELSE 0
           [] t.kind = "class" ->
                IF i + t.n - 1 <= Len(s) /\ \A j \in i..(i + t.n - 1) : InClass(t.cls, s[j])
                THEN MatchEnd(pat, k + 1, s, i + t.n)
                ELSE 0
           [] t.kind = "plus" ->
                LET ok == {n \in 1..RunLen(t.cls, s, i) : MatchEnd(pat, k + 1, s, i + n) # 0}
                IN  IF ok = {} THEN 0 ELSE MatchEnd(pat, k + 1, s, i + Max(ok))

\* the positions from i on at which the pattern matches
MatchesFrom(pat, s, i) == {j \in i..Len(s) : MatchEnd(pat, 1, s, j) # 0}

\* re.sub(pat, repl, s): leftmost non-overlapping matches, scanning from position i
RECURSIVE SubFrom(_, _, _, _)
SubFrom(pat, repl, s, i) ==
    IF MatchesFrom(pat, s, i) = {} THEN SubSeq(s, i, Len(s))
    ELSE LET j == Min(MatchesFrom(pat, s, i))
         IN  SubSeq(s, i, j - 1) \o repl \o SubFrom(pat, repl, s, MatchEnd(pat, 1, s, j))

\* re.sub with count=1: only the leftmost match is replaced
SubFirstOnly(pat, repl, s) ==
    IF MatchesFrom(pat, s, 1) = {} THEN s
    ELSE LET j == Min(MatchesFrom(pat, s, 1))
         IN  SubSeq(s, 1, j - 1) \o repl \o SubSeq(s, MatchEnd(pat, 1, s, j), Len(s))

Sub(pat, repl, s) == SubFrom(pat, repl, s, 1)

(***************************************************************************)
(* LogLevel, LogEntry.                                                     *)
(***************************************************************************)
LogLevel == {"debug", "info", "warning", "error", "critical"}

\* Order of the levels, Critical highest (the enum itself is unordered).
LevelRank(level) ==
    CASE level = "critical" -> 5
      [] level = "error" -> 4
      [] level = "warning" -> 3
      [] level = "info" -> 2
      [] level = "debug" -> 1

MsgDbTimeout100 == <<"D","B"," ","t","i","m","e","o","u","t"," ","a","f","t","e","r"," ","1","0","0","m","s">>

MsgDbTimeout250 == <<"D","B"," ","t","i","m","e","o","u","t"," ","a","f","t","e","r"," ","2","5","0","m","s">>

MsgHealthCheck == <<"h","e","a","l","t","h"," ","c","h","e","c","k"," ","p","a","s","s","e","d">>

MsgUnexpectedEOF == <<"u","n","e","x","p","e","c","t","e","d"," ","E","O","F">>

MsgStatus500 == <<"A","P","I"," ","r","e","q","u","e","s","t"," ","f","a","i","l","e","d",":"," ","s","t","a","t","u","s"," ","5","0","0">>

MsgStatus404 == <<"A","P","I"," ","r","e","q","u","e","s","t"," ","f","a","i","l","e","d",":"," ","s","t","a","t","u","s"," ","4","0","4">>

\* The entries fed to the classifier: every combination of the given field
\* values; trace_id keeps its default.
Entries(times, levels, svcs, messages) ==
    {[timestamp |-> t, level |-> l, service |-> v, message |-> m, trace_id |-> "None"] :
        t \in times, l \in levels, v \in svcs, m \in messages}

(***************************************************************************)
(* LogClassifier.                                                          *)
(***************************************************************************)
None == "None"

NOISE_PATTERNS == <<
    <<"h","e","a","l","t","h"," ","c","h","e","c","k">>,
    <<"c","o","n","n","e","c","t","i","o","n"," ","r","e","s","e","t"," ","b","y"," ","p","e","e","r">>,
    <<"c","o","n","t","e","x","t"," ","c","a","n","c","e","l","e","d">>,
    <<"r","e","q","u","e","s","t"," ","c","a","n","c","e","l","e","d">>,
    <<"E","O","F">> >>

NORMALIZE_PATTERNS == <<
    [pattern |-> <<D(4), L("-"), D(2), L("-"), D(2)>>,
     replacement |-> <<"<","D","A","T","E",">">>],
    [pattern |-> <<D(2), L(":"), D(2), L(":"), D(2)>>,
     replacement |-> <<"<","T","I","M","E",">">>],
    [pattern |-> <<B, X(8), L("-"), X(4), L("-"), X(4), L("-"), X(4), L("-"), X(12), B>>,
     replacement |-> <<"<","U","U","I","D",">">>],
    [pattern |-> <<B, DPlus, L("."), DPlus, L("."), DPlus, L("."), DPlus, B>>,
     replacement |-> <<"<","I","P",">">>],
    [pattern |-> <<B, DPlus, B>>,
     replacement |-> <<"<","N","U","M",">">>] >>

\* any(re.search(p, msg_lower) for p in self.NOISE_PATTERNS)
MatchesNoise(message) ==
    LET msg_lower == Lower(message)
    IN  \E k \in 1..Len(NOISE_PATTERNS) : Search(NOISE_PATTERNS[k], msg_lower)

\* the loop of _normalize_message from rule k on
RECURSIVE NormalizeFrom(_, _)
NormalizeFrom(k, result) ==
    IF k > Len(NORMALIZE_PATTERNS) THEN result
    ELSE NormalizeFrom(k + 1,
            Sub(NORMALIZE_PATTERNS[k].pattern, NORMALIZE_PATTERNS[k].replacement, result))

\* The messages of the model, and the two pure functions tabulated on them
\* (each is computed once per message instead of once per step).
LogMessages ==
    {MsgDbTimeout100, MsgDbTimeout250, MsgHealthCheck, MsgUnexpectedEOF,
     MsgStatus500, MsgStatus404}

NoiseOf == [m \in LogMessages |-> MatchesNoise(m)]

NormalizedOf == [m \in LogMessages |-> NormalizeFrom(1, m)]

_is_noise(entry) == NoiseOf[entry.message]

_normalize_message(message) == NormalizedOf[message]

\* hashlib.md5(normalized.encode()).hexdigest()[:12], tabulated on the
\* normalized messages
SignatureOf == [n \in {_normalize_message(m) : m \in LogMessages} |-> Md5Hex12(Text(n))]

\* The update of a cluster already in the store.
UpdatedClusterRestamped(cluster, entry) ==
    [cluster EXCEPT
        !.count = @ + 1,
        !.first_seen = Min({@, entry.timestamp}),
        !.last_seen = entry.timestamp,
        !.samples = IF Len(@) < 3 THEN Append(@, entry) ELSE @]

UpdatedClusterNoCount(cluster, entry) ==
    [cluster EXCEPT
        !.last_seen = entry.timestamp,
        !.samples = IF Len(@) < 3 THEN Append(@, entry) ELSE @]

UpdatedCluster(cluster, entry) ==
    [cluster EXCEPT
        !.count = @ + 1,
        !.last_seen = entry.timestamp,
        !.samples = IF Len(@) < 3 THEN Append(@, entry) ELSE @]

\* The cluster made for a signature seen for the first time.
NewErrorCluster(normalized, signature, entry) ==
    [pattern |-> normalized,
     signature |-> signature,
     count |-> 1,
     first_seen |-> entry.timestamp,
     last_seen |-> entry.timestamp,
     samples |-> <<entry>>,
     is_noise |-> FALSE]

\* The noise branch: the entry is tallied and the call returns None.
FilteredButGrouped(entry) ==
    LET normalized == _normalize_message(entry.message)
        signature == SignatureOf[normalized]
    IN  /\ noise_count' = noise_count + 1
        /\ call' = [op |-> "classify", arg |-> entry, ret |-> None]
        /\ log_members' = Record(log_members, None, entry, None)
        /\ steps' = steps + 1
        /\ IF signature \in DOMAIN clusters
           THEN /\ clusters' = [clusters EXCEPT
                                  ![signature] = UpdatedCluster(clusters[signature], entry)]
                /\ UNCHANGED clusters_order
           ELSE /\ clusters' = Put(clusters, signature,
                                   NewErrorCluster(normalized, signature, entry))
                /\ clusters_order' = Append(clusters_order, signature)

Filtered(entry) ==
    /\ noise_count' = noise_count + 1
    /\ call' = [op |-> "classify", arg |-> entry, ret |-> None]
    /\ log_members' = Record(log_members, None, entry, None)
    /\ steps' = steps + 1
    /\ UNCHANGED <<clusters, clusters_order>>

\* The grouping branch: the entry joins the cluster of its signature.
Grouped(entry) ==
    LET normalized == _normalize_message(entry.message)
        signature == SignatureOf[normalized]
    IN  /\ IF signature \in DOMAIN clusters
           THEN /\ clusters' = [clusters EXCEPT
                                  ![signature] = UpdatedCluster(clusters[signature], entry)]
                /\ UNCHANGED clusters_order
           ELSE /\ clusters' = Put(clusters, signature,
                                   NewErrorCluster(normalized, signature, entry))
                /\ clusters_order' = Append(clusters_order, signature)
        /\ call' = [op |-> "classify", arg |-> entry, ret |-> signature]
        /\ log_members' = Record(log_members, signature, entry, signature)
        /\ steps' = steps + 1
        /\ UNCHANGED noise_count

classify(entry) ==
    /\ IF _is_noise(entry) THEN Filtered(entry) ELSE Grouped(entry)
    /\ UNCHANGED <<groups, groups_order, suppressed_count, alert_members, threads,
                   circuits, simulated, manager>>

\* RollbackManager.__init__ (the service is the one of main)
NewRollbackManager ==
    [service |-> "api-service", versions |-> <<>>, rollback_history |-> <<>>,
     current_version |-> None]

(***************************************************************************)
(* The state machine: both engines start empty; each step is one call.     *)
(***************************************************************************)
Init ==
    /\ groups = <<>>
    /\ groups_order = <<>>
    /\ suppressed_count = 0
    /\ clusters = <<>>
    /\ clusters_order = <<>>
    /\ noise_count = 0
    /\ call = [op |-> "init"]
    /\ alert_members = <<>>
    /\ log_members = <<>>
    /\ steps = 0
    /\ threads = <<>>
    /\ circuits = <<>>
    /\ simulated = <<>>
    /\ manager = NewRollbackManager

AlertTimes == {0, 60, 299, 400, 599, 600}

AlertInputs == Alerts({"HighErrorRate"}, {"critical", "warning"}, {"api", "auth"}, AlertTimes)

LogInputs ==
    Entries({0, 60}, {"warning"}, {"api"},
            {MsgDbTimeout100, MsgDbTimeout250, MsgHealthCheck, MsgUnexpectedEOF, MsgStatus500})

ProcessAlert == steps < MaxEvents /\ \E alert \in AlertInputs : process_alert(alert)

Classify == steps < MaxEvents /\ \E entry \in LogInputs : classify(entry)

Next == ProcessAlert \/ Classify

Spec == Init /\ [][Next]_vars

\* One alert type and one log pattern firing repeatedly: longer runs over
\* fewer distinct events.
StormAlerts == Alerts({"HighErrorRate"}, {"critical"}, {"api", "auth"}, {0, 400})

StormLogs == Entries({0, 60}, {"warning", "critical"}, {"api"}, {MsgStatus500, MsgStatus404})

StormAlert == steps < MaxStorm /\ \E alert \in StormAlerts : process_alert(alert)

StormLog == steps < MaxStorm /\ \E entry \in StormLogs : classify(entry)

StormNext == StormAlert \/ StormLog

StormSpec == Init /\ [][StormNext]_vars

\* Alerts with every field of the dataclass, the ones process_alert never
\* reads (id, message, labels) included.
FullAlerts(ids, names, sevs, svcs, msgs, times, labelsets) ==
    {[id |-> i, name |-> n, severity |-> s, service |-> v, message |-> m,
      timestamp |-> t, labels |-> l] :
        i \in ids, n \in names, s \in sevs, v \in svcs, m \in msgs, t \in times,
        l \in labelsets}

FingerprintAlerts ==
    FullAlerts({"alert-0000", "alert-0001"}, {"HighErrorRate"}, {"critical", "warning"},
               {"api", "auth"}, {"Error rate > 5%", "Error rate > 9%"}, {0, 400},
               {<<>>, [env |-> "prod"]})

FingerprintLogs ==
    Entries({0, 60}, {"warning", "critical"}, {"api", "auth"},
            {MsgStatus500, MsgStatus404, MsgDbTimeout100})

FingerprintAlert == steps < MaxFingerprint /\ \E alert \in FingerprintAlerts : process_alert(alert)

FingerprintLog == steps < MaxFingerprint /\ \E entry \in FingerprintLogs : classify(entry)

FingerprintNext == FingerprintAlert \/ FingerprintLog

FingerprintSpec == Init /\ [][FingerprintNext]_vars

\* the sum of the counts of the groups under the given keys
RECURSIVE TotalCount(_, _)
TotalCount(store, keys) ==
    IF keys = {} THEN 0
    ELSE LET k == CHOOSE x \in keys : TRUE
         IN  store[k].count + TotalCount(store, keys \ {k})

(***************************************************************************)
(* The read-only views and the report.                                     *)
(***************************************************************************)
\* dict.values(): the values in the insertion order of their keys
Values(store, order) == [i \in 1..Len(order) |-> store[order[i]]]

\* timedelta(minutes=30), in seconds
active_window == 1800

GetActiveGroupsLe(now) ==
    LET Active(g) == now - g.last_seen <= active_window
    IN  SelectSeq(Values(groups, groups_order), Active)

\* get_active_groups, with the value datetime.now() gives it
get_active_groups(now) ==
    LET Active(g) == now - g.last_seen < active_window
    IN  SelectSeq(Values(groups, groups_order), Active)

GetActionableErrorsStrict(min_count) ==
    LET Actionable(c) == ~c.is_noise /\ c.count > min_count
    IN  SelectSeq(Values(clusters, clusters_order), Actionable)

get_actionable_errors(min_count) ==
    LET Actionable(c) == ~c.is_noise /\ c.count >= min_count
    IN  SelectSeq(Values(clusters, clusters_order), Actionable)

\* sorted(seq, key=lambda x: x.count, reverse=True): a stable sort, equal
\* counts keep their order
RECURSIVE SortedByCount(_)
SortedByCount(seq) ==
    IF seq = <<>> THEN <<>>
    ELSE LET top == Max({seq[i].count : i \in 1..Len(seq)})
             k == Min({i \in 1..Len(seq) : seq[i].count = top})
         IN  <<seq[k]>> \o SortedByCount(SubSeq(seq, 1, k - 1) \o SubSeq(seq, k + 1, Len(seq)))

\* sum(g.count for g in self.groups.values())
total_processed == TotalCount(groups, DOMAIN groups)

\* sum(c.count for c in self.clusters.values())
total_errors == TotalCount(clusters, DOMAIN clusters)

\* a call that reads the stores and returns ret: arg holds its inputs by
\* name, and the record is marked as that of a call that writes nothing
Reads(op, arg, ret) ==
    /\ call' = [op |-> op, arg |-> arg, ret |-> ret, readonly |-> TRUE]
    /\ UNCHANGED <<groups, groups_order, suppressed_count, clusters, clusters_order,
                   noise_count, alert_members, log_members, steps, threads,
                   circuits, simulated, manager>>

QueryAlerts == Alerts({"HighErrorRate"}, {"critical", "warning"}, {"api", "auth"}, {0, 1000})

QueryLogs == Entries({0}, {"warning"}, {"api"}, {MsgStatus500, MsgDbTimeout100, MsgHealthCheck})

\* values of datetime.now() at a query, in seconds
QueryNow == {1799, 1800, 2900}

QueryMinCounts == {1, 2}

QueryAlert ==
    /\ total_processed < MaxQueryAlerts
    /\ \E alert \in QueryAlerts : process_alert(alert)

QueryLog ==
    /\ total_errors + noise_count < MaxQueryLogs
    /\ \E entry \in QueryLogs : classify(entry)

GetActiveGroups ==
    \E now \in QueryNow : Reads("get_active_groups", [now |-> now], get_active_groups(now))

GetActionableErrors ==
    \E min_count \in QueryMinCounts :
        Reads("get_actionable_errors", [min_count |-> min_count],
              get_actionable_errors(min_count))

\* print_report: the lines of the active groups, most frequent first
PrintReport ==
    \E now \in QueryNow : Reads("print_report", [now |-> now], SortedByCount(get_active_groups(now)))

\* round(num / den) to the nearest integer, a tie going to the even one: the
\* rounding of "{:.1f}" and of round(x, 1) on a value the float holds exactly
\* (a tie needs a total that is a multiple of 16)
RoundHalfEven(num, den) ==
    LET q == num \div den
        r == num % den
    IN  IF 2 * r < den THEN q
        ELSE IF 2 * r > den THEN q + 1
        ELSE IF q % 2 = 0 THEN q ELSE q + 1

\* f"{x:.1f}%" of x = tenths / 10
FormatPercent(tenths) ==
    ToString(tenths \div 10) \o "." \o ToString(tenths % 10) \o "%"

suppression_rate ==
    IF total_processed # 0
    THEN FormatPercent(RoundHalfEven(suppressed_count * 1000, total_processed))
    ELSE "0%"

\* AlertDeduplicator.get_summary, read at the time now
AlertDeduplicator_get_summary(now) ==
    [total_alerts_processed |-> total_processed,
     unique_alert_types     |-> Cardinality(DOMAIN groups),
     alerts_suppressed      |-> suppressed_count,
     suppression_rate       |-> suppression_rate,
     active_groups          |-> Len(get_active_groups(now))]

\* round(noise_count / total * 100, 1), held as a number of tenths of a percent
noise_reduction_pct ==
    IF total_errors + noise_count > 0
    THEN RoundHalfEven(noise_count * 1000, total_errors + noise_count)
    ELSE 0

\* LogClassifier.get_summary (get_actionable_errors with its default min_count)
LogClassifier_get_summary ==
    [total_entries       |-> total_errors + noise_count,
     unique_patterns     |-> Cardinality(DOMAIN clusters),
     noise_filtered      |-> noise_count,
     actionable_clusters |-> Len(get_actionable_errors(2)),
     noise_reduction_pct |-> noise_reduction_pct]

GetAlertSummary ==
    \E now \in QueryNow :
        Reads("AlertDeduplicator.get_summary", [now |-> now], AlertDeduplicator_get_summary(now))

GetLogSummary ==
    Reads("LogClassifier.get_summary", [none |-> None], LogClassifier_get_summary)

\* the deduplicator with its views, the classifier with its views
ActiveNext == QueryAlert \/ GetActiveGroups \/ PrintReport \/ GetAlertSummary

ActiveSpec == Init /\ [][ActiveNext]_vars

ActionableNext == QueryLog \/ GetActionableErrors \/ GetLogSummary

ActionableSpec == Init /\ [][ActionableNext]_vars

(***************************************************************************)
(* The normalizer on its own: a message put together from a few pieces is  *)
(* normalized, and its normal form is normalized again.                    *)
(***************************************************************************)
PieceDate == <<"2","0","2","4","-","0","1","-","1","5">>    \* an ISO date

PieceTime == <<"1","0",":","3","0",":","0","0">>    \* a time of day

PieceUuid == <<"7","f","3","a","9","c","0","1","-","0","0","0","0","-","0","0","0","0","-","0","0","0","0","-","0","0","0","0","0","0","0","0","0","0","0","0">>    \* a trace id as LogGenerator writes it

PieceIp == <<"1","0",".","0",".","0",".","1">>    \* a dotted quad

PieceNumber == <<"4","2">>    \* a run of digits

PieceUnit == <<"m","s">>    \* letters

PieceSpace == <<" ">>    \* a blank

PieceDot == <<".">>    \* a dot

Pieces == {PieceDate, PieceTime, PieceUuid, PieceIp, PieceNumber, PieceUnit, PieceSpace, PieceDot}

\* the messages made of at most n pieces
RECURSIVE Joined(_)
Joined(n) ==
    IF n = 0 THEN {<<>>}
    ELSE Joined(n - 1) \cup {p \o m : p \in Pieces, m \in Joined(n - 1)}

NormalizeInputs == Joined(MaxPieces)

NormalizeInit ==
    /\ groups = <<>>
    /\ groups_order = <<>>
    /\ suppressed_count = 0
    /\ clusters = <<>>
    /\ clusters_order = <<>>
    /\ noise_count = 0
    /\ call \in {[op |-> "message", arg |-> m] : m \in NormalizeInputs}
    /\ alert_members = <<>>
    /\ log_members = <<>>
    /\ steps = 0
    /\ threads = <<>>
    /\ circuits = <<>>
    /\ simulated = <<>>
    /\ manager = NewRollbackManager

\* normalized = self._normalize_message(entry.message), computed on the
\* message itself (these messages are not in the table of LogMessages)
Normalize ==
    /\ call.op = "message"
    /\ call' = [op |-> "_normalize_message", arg |-> call.arg,
                ret |-> NormalizeFrom(1, call.arg)]
    /\ UNCHANGED <<groups, groups_order, suppressed_count, clusters, clusters_order,
                   noise_count, alert_members, log_members, steps, threads,
                   circuits, simulated, manager>>

\* the normal form fed to the normalizer once more
NormalizeAgain ==
    /\ call.op = "_normalize_message"
    /\ call' = [op |-> "_normalize_message", arg |-> call.ret,
                ret |-> NormalizeFrom(1, call.ret)]
    /\ UNCHANGED <<groups, groups_order, suppressed_count, clusters, clusters_order,
                   noise_count, alert_members, log_members, steps, threads,
                   circuits, simulated, manager>>

NormalizeNext == Normalize \/ NormalizeAgain

NormalizeSpec == NormalizeInit /\ [][NormalizeNext]_vars

(***************************************************************************)
(* Concurrent producers.  Several threads call process_alert on one        *)
(* deduplicator; the code takes no lock, so another thread can run between *)
(* the lookup of the signature (lines 79-84) and the branch that acts on   *)
(* what the lookup found (lines 86-98, or 100-112 with its call of         *)
(* AlertGroup).  A thread is idle, or holds its alert and the branch it    *)
(* has chosen.                                                             *)
(***************************************************************************)
Threads == {"producer-1", "producer-2"}

Idle == [pc |-> "idle"]

Running == {t \in Threads : threads[t] # Idle}

\* lines 79-84: the signature is looked up and the branch is chosen
Lookup(t, alert) ==
    LET signature == _get_signature(alert)
        branch == IF signature \in DOMAIN groups
                  THEN IF WithinWindow(groups[signature], alert)
                       THEN "suppress" ELSE "rollover"
                  ELSE "create"
    IN  /\ threads[t] = Idle
        /\ threads' = [threads EXCEPT ![t] = [pc |-> branch, alert |-> alert]]
        /\ UNCHANGED <<groups, groups_order, suppressed_count, clusters, clusters_order,
                       noise_count, call, alert_members, log_members, steps,
                       circuits, simulated, manager>>

\* the return of the call: the thread is idle again
Returns(t, alert, ret) ==
    /\ threads' = [threads EXCEPT ![t] = Idle]
    /\ call' = [op |-> "process_alert", arg |-> alert, ret |-> ret]
    /\ alert_members' = Record(alert_members, _get_signature(alert), alert, ret)
    /\ steps' = steps + 1
    /\ UNCHANGED <<clusters, clusters_order, noise_count, log_members,
                   circuits, simulated, manager>>

\* lines 100-112: the dict entry is assigned a new group
Create(t) ==
    LET alert == threads[t].alert
        signature == _get_signature(alert)
    IN  /\ threads[t].pc = "create"
        /\ groups' = Put(groups, signature, NewAlertGroup(signature, alert))
        /\ groups_order' = IF signature \in DOMAIN groups
                           THEN groups_order ELSE Append(groups_order, signature)
        /\ UNCHANGED suppressed_count
        /\ Returns(t, alert, TRUE)

\* lines 86-93
Suppress(t) ==
    LET alert == threads[t].alert
        signature == _get_signature(alert)
    IN  /\ threads[t].pc = "suppress"
        /\ groups' = [groups EXCEPT ![signature] = Suppressed(@, alert)]
        /\ suppressed_count' = suppressed_count + 1
        /\ UNCHANGED groups_order
        /\ Returns(t, alert, FALSE)

\* lines 94-98
Rollover(t) ==
    LET alert == threads[t].alert
        signature == _get_signature(alert)
    IN  /\ threads[t].pc = "rollover"
        /\ groups' = [groups EXCEPT ![signature] = RolledOver(@, alert)]
        /\ UNCHANGED <<suppressed_count, groups_order>>
        /\ Returns(t, alert, TRUE)

ConcurrentInit ==
    /\ groups = <<>>
    /\ groups_order = <<>>
    /\ suppressed_count = 0
    /\ clusters = <<>>
    /\ clusters_order = <<>>
    /\ noise_count = 0
    /\ call = [op |-> "init"]
    /\ alert_members = <<>>
    /\ log_members = <<>>
    /\ steps = 0
    /\ threads = [t \in Threads |-> Idle]
    /\ circuits = <<>>
    /\ simulated = <<>>
    /\ manager = NewRollbackManager

ConcurrentAlerts == Alerts({"HighErrorRate"}, {"critical", "warning"}, {"api", "auth"}, {0, 400})

ThreadLookup ==
    /\ steps + Cardinality(Running) < MaxConcurrent
    /\ \E t \in Threads, alert \in ConcurrentAlerts : Lookup(t, alert)

ThreadCreate == \E t \in Threads : Create(t)

ThreadSuppress == \E t \in Threads : Suppress(t)

ThreadRollover == \E t \in Threads : Rollover(t)

ConcurrentNext == ThreadLookup \/ ThreadCreate \/ ThreadSuppress \/ ThreadRollover

ConcurrentSpec == ConcurrentInit /\ [][ConcurrentNext]_vars

(***************************************************************************)
(* Reading the history.                                                    *)
(***************************************************************************)
Last(m) == m[Len(m)]

TimesOf(m) == [i \in 1..Len(m) |-> m[i].event.timestamp]

RetsOf(m) == [i \in 1..Len(m) |-> m[i].ret]

EventsOf(m) == [i \in 1..Len(m) |-> m[i].event]

\* the signatures under which log entries were grouped (None is "noise")
LogSignatures == DOMAIN log_members \ {None}

NoiseHistory == IF None \in DOMAIN log_members THEN log_members[None] ELSE <<>>

\* a step that is a call of process_alert / of classify
AlertCall == steps' = steps + 1 /\ call'.op = "process_alert"

ClassifyCall == steps' = steps + 1 /\ call'.op = "classify"

(***************************************************************************)
(* C1  Suppression window boundary.  A process_alert call whose signature  *)
(* already has a group returns False (Suppress) exactly when               *)
(* alert.timestamp - group.last_seen < SUPPRESSION_WINDOW and True (Emit)  *)
(* otherwise: a gap of W - 1 suppresses, a gap of W or of W + 1 emits.     *)
(***************************************************************************)
C1_SuppressionBoundary ==
    [][ (AlertCall /\ _get_signature(call'.arg) \in DOMAIN groups) =>
            LET gap == call'.arg.timestamp - groups[_get_signature(call'.arg)].last_seen
            IN  /\ (call'.ret = FALSE) <=> (gap < SUPPRESSION_WINDOW)
                /\ (call'.ret = TRUE) <=> (gap >= SUPPRESSION_WINDOW)
                /\ gap = SUPPRESSION_WINDOW - 1 => call'.ret = FALSE
                /\ gap \in {SUPPRESSION_WINDOW, SUPPRESSION_WINDOW + 1} => call'.ret = TRUE
                /\ (call'.ret = FALSE) <=> (suppressed_count' = suppressed_count + 1)
      ]_vars

\* three alerts of one signature: the second W - 1 after the first
\* (suppressed), the third exactly W after the second (emitted)
C1_Witness ==
    \E s \in DOMAIN alert_members :
        LET t == TimesOf(alert_members[s])
        IN  /\ Len(t) = 3
            /\ t[2] - t[1] = SUPPRESSION_WINDOW - 1
            /\ t[3] - t[2] = SUPPRESSION_WINDOW
            /\ RetsOf(alert_members[s]) = <<TRUE, FALSE, TRUE>>
            /\ groups[s].last_seen = t[3]

(***************************************************************************)
(* C2  Count conservation.  For every signature the group's count is the   *)
(* number of events processed so far with that signature, Emit and         *)
(* Suppress both counted; the stores hold a group for exactly the          *)
(* signatures seen, and all counts plus the noise tally add up to the      *)
(* number of calls made.  (The history grows by one event per call, so a   *)
(* count grows by exactly one per member event and is never reset.)        *)
(***************************************************************************)
C2_CountConservation ==
    /\ DOMAIN groups = DOMAIN alert_members
    /\ \A s \in DOMAIN groups : groups[s].count = Len(alert_members[s])
    /\ DOMAIN clusters = LogSignatures
    /\ \A s \in DOMAIN clusters : clusters[s].count = Len(log_members[s])
    /\ noise_count = Len(NoiseHistory)
    /\ TotalCount(groups, DOMAIN groups) + TotalCount(clusters, DOMAIN clusters)
         + noise_count = steps

\* a group of three alerts, one of them suppressed and one re-emitted after
\* the window
C2_Witness ==
    \E s \in DOMAIN groups :
        /\ groups[s].count = 3
        /\ \E i, j \in 2..3 : /\ alert_members[s][i].ret = FALSE
                              /\ alert_members[s][j].ret = TRUE

C4_Scenario ==
    \A s \in DOMAIN alert_members :
        (/\ DOMAIN alert_members = {s}
         /\ TimesOf(alert_members[s]) = <<0, 60, 400>>)
        => /\ RetsOf(alert_members[s]) = <<TRUE, FALSE, TRUE>>
           /\ DOMAIN groups = {s}
           /\ groups[s].count = 3
           /\ suppressed_count = 1

C4_Witness ==
    /\ DOMAIN alert_members = {_get_signature([name |-> "HighErrorRate", severity |-> "critical"])}
    /\ \E s \in DOMAIN alert_members : TimesOf(alert_members[s]) = <<0, 60, 400>>
    /\ steps = 3

\* the messages of all entries classified so far
ClassifiedMessages ==
    UNION {{m.event.message : m \in Range(log_members[k])} : k \in DOMAIN log_members}

(***************************************************************************)
(* C5  Scenario.  After the log lines "DB timeout after 100ms",            *)
(* "DB timeout after 250ms" and "health check passed" have been            *)
(* classified, the first two have normalized to "DB timeout after <NUM>ms" *)
(* and share one cluster of count 2; the third was Noise and is in no      *)
(* cluster and not among the unique patterns.                              *)
(***************************************************************************)
C5_LogScenario ==
    (/\ steps = 3
     /\ alert_members = <<>>
     /\ ClassifiedMessages = {MsgDbTimeout100, MsgDbTimeout250, MsgHealthCheck})
    => /\ Text(_normalize_message(MsgDbTimeout100)) = "DB timeout after <NUM>ms"
       /\ Text(_normalize_message(MsgDbTimeout250)) = "DB timeout after <NUM>ms"
       /\ Cardinality(DOMAIN clusters) = 1
       /\ \A s \in DOMAIN clusters :
            /\ clusters[s].count = 2
            /\ Text(clusters[s].pattern) = "DB timeout after <NUM>ms"
            /\ \A e \in Range(clusters[s].samples) : e.message # MsgHealthCheck
       /\ noise_count = 1
       /\ Len(NoiseHistory) = 1 /\ NoiseHistory[1].event.message = MsgHealthCheck

\* the highest level among the samples a cluster keeps
ClusterSeverityRank(cluster) == Max({LevelRank(e.level) : e \in Range(cluster.samples)})

(***************************************************************************)
(* C6  Severity monotonicity.  A group's severity is the highest severity  *)
(* among the member events processed so far, for alert groups and for log  *)
(* clusters (across entries of different levels that share a pattern).     *)
(* An ErrorCluster has no severity field: what it keeps of its members'    *)
(* levels is its samples, so its severity is read as the highest level     *)
(* among them.                                                             *)
(***************************************************************************)
C6_SeverityIsMaximum ==
    /\ \A s \in DOMAIN groups :
         SeverityRank(groups[s].severity)
           = Max({SeverityRank(m.event.severity) : m \in Range(alert_members[s])})
    /\ \A s \in DOMAIN clusters :
         ClusterSeverityRank(clusters[s])
           = Max({LevelRank(m.event.level) : m \in Range(log_members[s])})

\* the message contains one of NOISE_PATTERNS, letter case ignored on both sides
MentionsNoisePattern(message) ==
    \E k \in 1..Len(NOISE_PATTERNS) : Search(Lower(NOISE_PATTERNS[k]), Lower(message))

MentionsNoiseOf == [m \in LogMessages |-> MentionsNoisePattern(m)]

(***************************************************************************)
(* C7  The noise filter is case-insensitive over the whole pattern list:   *)
(* an entry whose message contains, in any letter case, one of the five    *)
(* listed patterns is classified as Noise (classify returns None).         *)
(***************************************************************************)
C7_NoiseFilterCaseInsensitive ==
    (call.op = "classify" /\ MentionsNoiseOf[call.arg.message]) => call.ret = None

(***************************************************************************)
(* C8  A group's services are the distinct services of all its member      *)
(* events, without duplicates, whichever branch processed each member.     *)
(***************************************************************************)
C8_ServicesOfAllMembers ==
    \A s \in DOMAIN groups :
        /\ Range(groups[s].services) = {m.event.service : m \in Range(alert_members[s])}
        /\ Cardinality(Range(groups[s].services)) = Len(groups[s].services)

\* the first (at most 3) events of a history
FirstThree(m) == SubSeq(EventsOf(m), 1, IF Len(m) < 3 THEN Len(m) ELSE 3)

(***************************************************************************)
(* C9  Every group's sample list holds at most 3 events, namely the first  *)
(* (at most 3) member events in processing order: AlertGroup.alerts as     *)
(* well as ErrorCluster.samples.                                           *)
(***************************************************************************)
C9_SampleCap ==
    /\ \A s \in DOMAIN groups :
         /\ Len(groups[s].alerts) <= 3
         /\ groups[s].alerts = FirstThree(alert_members[s])
    /\ \A s \in DOMAIN clusters :
         /\ Len(clusters[s].samples) <= 3
         /\ clusters[s].samples = FirstThree(log_members[s])

(***************************************************************************)
(* C10  Every group's count is at least the length of its sample list,     *)
(* and at least 1.                                                         *)
(***************************************************************************)
C10_CountCoversSamples ==
    /\ \A s \in DOMAIN groups :
         groups[s].count >= Len(groups[s].alerts) /\ groups[s].count >= 1
    /\ \A s \in DOMAIN clusters :
         clusters[s].count >= Len(clusters[s].samples) /\ clusters[s].count >= 1

\* a cluster that has outgrown its samples: four entries, three kept
C10_Witness ==
    \E s \in DOMAIN clusters : clusters[s].count = 4 /\ Len(clusters[s].samples) = 3

(***************************************************************************)
(* C11  Every group and every cluster has last_seen >= first_seen, after   *)
(* any sequence of events, timestamps arriving out of order included.      *)
(***************************************************************************)
C11_LastSeenNotBeforeFirstSeen ==
    /\ \A s \in DOMAIN groups : groups[s].last_seen >= groups[s].first_seen
    /\ \A s \in DOMAIN clusters : clusters[s].last_seen >= clusters[s].first_seen

\* a is an initial part of b
IsPrefix(a, b) == Len(a) <= Len(b) /\ SubSeq(b, 1, Len(a)) = a

\* the group g of one step is still the group h of the next: what was fixed
\* when it was made is kept, its count and its member list only grow
SameGroup(g, h) ==
    /\ h.signature = g.signature
    /\ h.name = g.name
    /\ h.first_seen = g.first_seen
    /\ h.count >= g.count
    /\ IsPrefix(g.alerts, h.alerts)

SameCluster(c, d) ==
    /\ d.signature = c.signature
    /\ d.pattern = c.pattern
    /\ d.first_seen = c.first_seen
    /\ d.count >= c.count
    /\ IsPrefix(c.samples, d.samples)

(***************************************************************************)
(* C12  The store maps each signature to one group, the group under key s  *)
(* has signature s, and a group once created is never removed or replaced: *)
(* every later event of its signature changes that group in place.         *)
(***************************************************************************)
C12_OneGroupPerSignature ==
    [][ /\ DOMAIN groups \subseteq DOMAIN groups'
        /\ \A s \in DOMAIN groups' : groups'[s].signature = s
        /\ \A s \in DOMAIN groups : SameGroup(groups[s], groups'[s])
        /\ DOMAIN clusters \subseteq DOMAIN clusters'
        /\ \A s \in DOMAIN clusters' : clusters'[s].signature = s
        /\ \A s \in DOMAIN clusters : SameCluster(clusters[s], clusters'[s])
      ]_vars

\* a group that was suppressed into and then rolled over is still the group
\* made by its first alert, beside a second group and a cluster hit twice
C12_Witness ==
    /\ \E s \in DOMAIN groups :
        /\ RetsOf(alert_members[s]) = <<TRUE, TRUE>>
        /\ groups[s].signature = s
        /\ groups[s].first_seen = alert_members[s][1].event.timestamp
        /\ groups[s].alerts = EventsOf(alert_members[s])
    /\ \E s \in DOMAIN clusters : clusters[s].signature = s /\ clusters[s].count = 1

\* the signature classify computes for an entry that is not noise
LogSignature(entry) == SignatureOf[_normalize_message(entry.message)]

\* the services a cluster has seen, as far as it records them: those of its
\* samples (ErrorCluster has no field for them)
ClusterSources(cluster) == {cluster.samples[i].service : i \in 1..Len(cluster.samples)}

(***************************************************************************)
(* C13  An event that is not noise and whose signature has no group yet is *)
(* emitted (process_alert returns True, classify returns the signature)    *)
(* and creates exactly one group: count 1, first_seen = last_seen = the    *)
(* event's timestamp, sources = {the event's service}, samples = <<the     *)
(* event>>; every other group is left as it was.                           *)
(***************************************************************************)
C13_NewSignatureCreatesGroup ==
    [][ /\ (AlertCall /\ _get_signature(call'.arg) \notin DOMAIN groups) =>
               LET alert == call'.arg
                   s == _get_signature(alert)
               IN  /\ call'.ret = TRUE
                   /\ DOMAIN groups' = DOMAIN groups \cup {s}
                   /\ groups'[s].count = 1
                   /\ groups'[s].first_seen = alert.timestamp
                   /\ groups'[s].last_seen = alert.timestamp
                   /\ Range(groups'[s].services) = {alert.service}
                   /\ groups'[s].alerts = <<alert>>
                   /\ \A o \in DOMAIN groups : groups'[o] = groups[o]
                   /\ clusters' = clusters
                   /\ suppressed_count' = suppressed_count
        /\ (ClassifyCall /\ ~_is_noise(call'.arg)
                /\ LogSignature(call'.arg) \notin DOMAIN clusters) =>
               LET entry == call'.arg
                   s == LogSignature(entry)
               IN  /\ call'.ret = s
                   /\ DOMAIN clusters' = DOMAIN clusters \cup {s}
                   /\ clusters'[s].count = 1
                   /\ clusters'[s].first_seen = entry.timestamp
                   /\ clusters'[s].last_seen = entry.timestamp
                   /\ ClusterSources(clusters'[s]) = {entry.service}
                   /\ clusters'[s].samples = <<entry>>
                   /\ \A o \in DOMAIN clusters : clusters'[o] = clusters[o]
                   /\ groups' = groups
                   /\ noise_count' = noise_count
      ]_vars

\* the last call made the second alert group, beside a group that had
\* already taken two alerts and a cluster
C13_Witness ==
    /\ call.op = "process_alert"
    /\ call.ret = TRUE
    /\ Cardinality(DOMAIN groups) = 2
    /\ groups[_get_signature(call.arg)].count = 1
    /\ groups[_get_signature(call.arg)].alerts = <<call.arg>>
    /\ \E o \in DOMAIN groups : groups[o].count = 2

\* The group and the decisions that the first n alerts of one signature
\* produce when they are processed with no other alert in between.
RECURSIVE Replay(_, _, _)
Replay(signature, events, n) ==
    IF n = 1
    THEN [group |-> NewAlertGroup(signature, events[1]), rets |-> <<TRUE>>]
    ELSE LET prev == Replay(signature, events, n - 1)
         IN  IF WithinWindow(prev.group, events[n])
             THEN [group |-> Suppressed(prev.group, events[n]),
                   rets |-> Append(prev.rets, FALSE)]
             ELSE [group |-> RolledOver(prev.group, events[n]),
                   rets |-> Append(prev.rets, TRUE)]

\* the number of Suppress decisions recorded under the given signatures
RECURSIVE SuppressedIn(_, _)
SuppressedIn(members, keys) ==
    IF keys = {} THEN 0
    ELSE LET k == CHOOSE x \in keys : TRUE
         IN  Cardinality({i \in 1..Len(members[k]) : members[k][i].ret = FALSE})
               + SuppressedIn(members, keys \ {k})

(***************************************************************************)
(* C14  Order independence across signatures.  The decisions, the groups   *)
(* and the suppressed count are determined by the per-signature sequences  *)
(* of alerts alone: each group and its decisions are what its own alerts   *)
(* give when replayed in their order with nothing in between, and the      *)
(* suppressed count is the number of their Suppress decisions.  So two     *)
(* runs whose alerts are permutations of each other with the same order    *)
(* inside every signature end with the same decisions, groups and count,   *)
(* and a batch fed in a loop is the alerts fed one at a time.              *)
(***************************************************************************)
C14_OrderIndependence ==
    /\ DOMAIN groups = DOMAIN alert_members
    /\ \A s \in DOMAIN alert_members :
          LET events == EventsOf(alert_members[s])
              alone == Replay(s, events, Len(events))
          IN  /\ groups[s] = alone.group
              /\ RetsOf(alert_members[s]) = alone.rets
    /\ suppressed_count = SuppressedIn(alert_members, DOMAIN alert_members)

\* alerts of two signatures interleaved: one of the first, one of the
\* second, then a suppressed one of the first
C14_Witness ==
    /\ Len(groups_order) = 2
    /\ call.op = "process_alert"
    /\ _get_signature(call.arg) = groups_order[1]
    /\ RetsOf(alert_members[groups_order[1]]) = <<TRUE, FALSE>>
    /\ Len(alert_members[groups_order[2]]) = 1
    /\ suppressed_count = 1

(***************************************************************************)
(* C15  With concurrent producers on one store the lookup of a signature   *)
(* and the update or creation of its group are one atomic step: whenever   *)
(* all calls have returned, each group has counted and kept every alert    *)
(* of its signature (two concurrent alerts of one new signature leave one  *)
(* group of count 2) and the suppressed count has every Suppress decision; *)
(* no update is lost under any interleaving.                               *)
(***************************************************************************)
C15_AtomicUpsert ==
    Running = {} =>
        /\ DOMAIN groups = DOMAIN alert_members
        /\ \A s \in DOMAIN groups :
              /\ groups[s].count = Len(alert_members[s])
              /\ Len(groups[s].alerts) = Len(alert_members[s])
        /\ suppressed_count = SuppressedIn(alert_members, DOMAIN alert_members)

\* the events processed so far, each with the signature it was filed under
FiledAlerts ==
    UNION {{[signature |-> s, event |-> alert_members[s][i].event] :
                i \in 1..Len(alert_members[s])} : s \in DOMAIN alert_members}

FiledEntries ==
    UNION {{[signature |-> s, event |-> log_members[s][i].event] :
                i \in 1..Len(log_members[s])} : s \in LogSignatures}

(***************************************************************************)
(* C16  The fingerprint is a function of the grouping key only.  Two       *)
(* alerts with the same name and severity get the same signature whatever  *)
(* their id, message, service, timestamp and labels; two log entries whose *)
(* messages normalize to the same text get the same signature whatever     *)
(* their level, service and timestamp; and the signature is the one        *)
(* computed on an empty store, whatever the store held when the event was  *)
(* processed.                                                              *)
(***************************************************************************)
C16_FingerprintOfKeyOnly ==
    /\ \A a, b \in FiledAlerts :
          (a.event.name = b.event.name /\ a.event.severity = b.event.severity)
              => a.signature = b.signature
    /\ \A a \in FiledAlerts :
          a.signature = Md5Hex12(a.event.name \o "|" \o a.event.severity)
    /\ \A a, b \in FiledEntries :
          _normalize_message(a.event.message) = _normalize_message(b.event.message)
              => a.signature = b.signature
    /\ \A a \in FiledEntries :
          a.signature = Md5Hex12(Text(_normalize_message(a.event.message)))

\* one group holds two alerts that differ in id, message, service,
\* timestamp and labels, and one cluster two entries that differ in message,
\* level, service and timestamp
C16_Witness ==
    \/ \E a, b \in FiledAlerts :
          /\ a.signature = b.signature
          /\ a.event.id # b.event.id
          /\ a.event.message # b.event.message
          /\ a.event.service # b.event.service
          /\ a.event.timestamp # b.event.timestamp
          /\ a.event.labels # b.event.labels
          /\ groups[a.signature].count = 2
    \/ \E a, b \in FiledEntries :
          /\ a.signature = b.signature
          /\ a.event.message # b.event.message
          /\ a.event.level # b.event.level
          /\ a.event.service # b.event.service
          /\ a.event.timestamp # b.event.timestamp
          /\ clusters[a.signature].count = 2

(***************************************************************************)
(* C17  Normalization is idempotent: normalizing a message that is already *)
(* normalized changes nothing,                                             *)
(* _normalize_message(_normalize_message(x)) = _normalize_message(x).      *)
(***************************************************************************)
C17_NormalizeIdempotent ==
    [][ (call.op = "_normalize_message" /\ call'.op = "_normalize_message") =>
            /\ call'.arg = call.ret
            /\ call'.ret = call.ret
      ]_vars

\* a message with a date, an address and a number has been rewritten, and
\* its normal form has gone through the normalizer again
C17_Witness ==
    /\ call.op = "_normalize_message"
    /\ call.arg = call.ret
    /\ call.ret = <<"<","D","A","T","E",">"," ","<","I","P",">">>

\* rule k of NORMALIZE_PATTERNS applied to a text
RuleOutput(k, s) == Sub(NORMALIZE_PATTERNS[k].pattern, NORMALIZE_PATTERNS[k].replacement, s)

\* the text has a digit left in it
HasDigit(s) == \E i \in 1..Len(s) : s[i] \in Digit

(***************************************************************************)
(* C18  The normalizer applies its rules in the fixed order date, time,    *)
(* UUID, IPv4, digit run, each to the output of the one before: an ISO     *)
(* date becomes <DATE>, an HH:MM:SS time <TIME>, an 8-4-4-4-12 hex UUID    *)
(* <UUID>, a dotted quad <IP>, none of them broken into <NUM> fragments,   *)
(* and every run of digits that remains becomes <NUM>, so that no digit is *)
(* left in a normalized message.                                           *)
(***************************************************************************)
C18_RulesInOrder ==
    (call.op = "_normalize_message") =>
        /\ call.ret = RuleOutput(5, RuleOutput(4, RuleOutput(3, RuleOutput(2,
                           RuleOutput(1, call.arg)))))
        /\ [k \in 1..5 |-> Text(NORMALIZE_PATTERNS[k].replacement)]
               = <<"<DATE>", "<TIME>", "<UUID>", "<IP>", "<NUM>">>
        /\ call.arg = PieceDate => call.ret = <<"<","D","A","T","E",">">>
        /\ call.arg = PieceTime => call.ret = <<"<","T","I","M","E",">">>
        /\ call.arg = PieceUuid => call.ret = <<"<","U","U","I","D",">">>
        /\ call.arg = PieceIp => call.ret = <<"<","I","P",">">>
        /\ call.arg = PieceNumber => call.ret = <<"<","N","U","M",">">>
        /\ ~HasDigit(call.ret)

\* a step that is a call of get_actionable_errors / get_active_groups /
\* print_report (these calls process no event)
ActionableCall == steps' = steps /\ call'.op = "get_actionable_errors"

ActiveCall == steps' = steps /\ call'.op = "get_active_groups"

ReportCall == steps' = steps /\ call'.op = "print_report"

(***************************************************************************)
(* C19  get_actionable_errors(min_count) returns exactly the clusters with *)
(* count >= min_count that are not noise, each once, and leaves the store  *)
(* as it was; with a cluster of count 1 and one of count 5, min_count = 2  *)
(* returns only the second.                                                *)
(***************************************************************************)
C19_ActionableErrors ==
    [][ ActionableCall =>
            /\ Range(call'.ret) =
                  {clusters[s] : s \in {k \in DOMAIN clusters :
                        clusters[k].count >= call'.arg.min_count /\ ~clusters[k].is_noise}}
            /\ Len(call'.ret) = Cardinality(Range(call'.ret))
            /\ \A i \in 1..Len(call'.ret) : call'.ret[i].pattern # MsgHealthCheck
            /\ clusters' = clusters
            /\ clusters_order' = clusters_order
            /\ noise_count' = noise_count
      ]_vars

\* clusters of count 1 and of count 5, noise seen as well: min_count = 2
\* returned the cluster of count 5 alone
C19_Witness ==
    /\ call.op = "get_actionable_errors"
    /\ call.arg.min_count = 2
    /\ {clusters[s].count : s \in DOMAIN clusters} = {1, 5}
    /\ Len(call.ret) = 1
    /\ call.ret[1].count = 5

\* the groups whose last alert is less than active_window before now
ActiveAt(now) ==
    {groups[s] : s \in {k \in DOMAIN groups : now - groups[k].last_seen < active_window}}

\* the list is in order of count, largest first
CountDescending(seq) == \A i, j \in 1..Len(seq) : i < j => seq[i].count >= seq[j].count

\* the position of a group in the store
PlaceOf(g) == CHOOSE i \in 1..Len(groups_order) : groups_order[i] = g.signature

\* the list is in the order in which the store holds its groups
StoreOrder(seq) == \A i, j \in 1..Len(seq) : i < j => PlaceOf(seq[i]) < PlaceOf(seq[j])

(***************************************************************************)
(* C20  As stated: get_active_groups returns exactly the groups whose      *)
(* last_seen lies within the activity window (30 minutes) of the current   *)
(* time, in order of count descending.                                     *)
(***************************************************************************)
C20_ActiveGroupsByCount ==
    (call.op = "get_active_groups") =>
        /\ Range(call.ret) = ActiveAt(call.arg.now)
        /\ Len(call.ret) = Cardinality(ActiveAt(call.arg.now))
        /\ CountDescending(call.ret)

(***************************************************************************)
(* C20  As amended: get_active_groups returns exactly the groups whose     *)
(* last_seen is less than 30 minutes before the current time, each once,   *)
(* in the order in which the groups were created, and removes or changes   *)
(* no group; it is print_report that puts this list in order of count      *)
(* descending.                                                             *)
(***************************************************************************)
C20_ActiveGroupsInStoreOrder ==
    [][ /\ ActiveCall =>
              /\ Range(call'.ret) = ActiveAt(call'.arg.now)
              /\ Len(call'.ret) = Cardinality(ActiveAt(call'.arg.now))
              /\ StoreOrder(call'.ret)
              /\ groups' = groups
              /\ groups_order' = groups_order
              /\ suppressed_count' = suppressed_count
        /\ ReportCall =>
              /\ Range(call'.ret) = ActiveAt(call'.arg.now)
              /\ Len(call'.ret) = Cardinality(ActiveAt(call'.arg.now))
              /\ CountDescending(call'.ret)
              /\ groups' = groups
      ]_vars

\* two active groups returned, the one created first with the smaller count
C20_Witness ==
    /\ call.op = "get_active_groups"
    /\ Len(call.ret) = 2
    /\ call.ret[1].count = 1
    /\ call.ret[2].count = 2
    /\ call.ret[1].signature = groups_order[1]

(***************************************************************************)
(* C21  Summary consistent with the history.  After any sequence of        *)
(* processed events a summary agrees with what was processed: its total    *)
(* is the number of non-noise events, its number of unique signatures is   *)
(* the number of distinct signatures among them, its suppressed count is   *)
(* the number of calls that returned Suppress (False), its number of       *)
(* active (actionable) groups is at most its number of unique signatures,  *)
(* and on an empty store it is produced with a rate of 0 and no division.  *)
(***************************************************************************)
NonNoiseEvents(members) ==
    TotalCount([k \in DOMAIN members \ {None} |-> [count |-> Len(members[k])]],
               DOMAIN members \ {None})

AlertSummaryMatchesHistory ==
    call.op = "AlertDeduplicator.get_summary" =>
        /\ call.ret.total_alerts_processed = NonNoiseEvents(alert_members)
        /\ call.ret.unique_alert_types = Cardinality(DOMAIN alert_members)
        /\ call.ret.alerts_suppressed = SuppressedIn(alert_members, DOMAIN alert_members)
        /\ call.ret.active_groups <= call.ret.unique_alert_types
        /\ alert_members = <<>> => call.ret.suppression_rate = "0%"

LogSummaryMatchesHistory ==
    call.op = "LogClassifier.get_summary" =>
        /\ call.ret.total_entries = NonNoiseEvents(log_members)
        /\ call.ret.unique_patterns = Cardinality(LogSignatures)
        /\ call.ret.actionable_clusters <= call.ret.unique_patterns
        /\ log_members = <<>> => call.ret.noise_reduction_pct = 0

C21_SummaryMatchesHistory == AlertSummaryMatchesHistory /\ LogSummaryMatchesHistory

(***************************************************************************)
(* Events with a field left out (None).  Neither engine checks an event:   *)
(* a call fails only where the code uses the missing value.                *)
(***************************************************************************)
\* alerts whose name, severity or message may be None
MalformedAlerts ==
    {[name |-> n, severity |-> s, service |-> "api", message |-> m, timestamp |-> t] :
        n \in {"HighErrorRate", None}, s \in {"critical", None},
        m \in {AlertMessage("HighErrorRate"), None}, t \in {0, 400}}

\* entries whose level or service may be None
MalformedEntries == Entries({0}, {"warning", None}, {"api", None}, {MsgStatus500, MsgHealthCheck})

\* alert.severity.value on a severity of None: AttributeError in _get_signature
SignatureRaises(alert) == alert.severity = None

\* a call that ends in an exception before it has written anything
Raised(op, arg, error) ==
    /\ call' = [op |-> op, arg |-> arg, raises |-> error]
    /\ steps' = steps + 1
    /\ UNCHANGED <<groups, groups_order, suppressed_count, clusters, clusters_order,
                   noise_count, alert_members, log_members, threads,
                   circuits, simulated, manager>>

MalformedAlert ==
    /\ steps < MaxMalformed
    /\ \E alert \in MalformedAlerts :
          IF SignatureRaises(alert)
          THEN Raised("process_alert", alert, "AttributeError")
          ELSE process_alert(alert)

MalformedEntry == steps < MaxMalformed /\ \E entry \in MalformedEntries : classify(entry)

MalformedNext == MalformedAlert \/ MalformedEntry

MalformedSpec == Init /\ [][MalformedNext]_vars

(***************************************************************************)
(* C22  Malformed events are rejected.  A call with an event that lacks a  *)
(* required field ends in an error, and after it the stores are exactly as *)
(* before: no group created or changed, suppressed and noise tallies       *)
(* unchanged; a malformed event is never stored in a group.                *)
(***************************************************************************)
\* the event lacks its name, severity, level, service or (an alert) message
MissingField(event) ==
    \/ \E f \in DOMAIN event \cap {"name", "severity", "level", "service"} : event[f] = None
    \/ "name" \in DOMAIN event /\ event.message = None

C22_MalformedRejected ==
    [][(steps' = steps + 1 /\ MissingField(call'.arg)) =>
          /\ "raises" \in DOMAIN call'
          /\ UNCHANGED <<groups, groups_order, suppressed_count,
                         clusters, clusters_order, noise_count>>]_vars

(***************************************************************************)
(* C23  last_seen is the timestamp of the event processed last.  After a   *)
(* process_alert call for a signature that has a group (suppressed or      *)
(* emitted), and after a classify call that joins an existing cluster, the *)
(* group's last_seen is the timestamp of that event, also when it is       *)
(* earlier than the last_seen of before.                                   *)
(***************************************************************************)
C23_LastSeenIsLastProcessed ==
    [][/\ (AlertCall /\ _get_signature(call'.arg) \in DOMAIN groups) =>
              groups'[_get_signature(call'.arg)].last_seen = call'.arg.timestamp
       /\ (ClassifyCall /\ call'.ret \in DOMAIN clusters) =>
              clusters'[call'.ret].last_seen = call'.arg.timestamp]_vars

\* a cluster whose second entry is older than its first: last_seen went back
C23_Witness ==
    \E s \in DOMAIN clusters :
        /\ Len(log_members[s]) = 2
        /\ log_members[s][2].event.timestamp < log_members[s][1].event.timestamp
        /\ clusters[s].last_seen = log_members[s][2].event.timestamp
        /\ clusters[s].last_seen < clusters[s].first_seen

(***************************************************************************)
(* Both engines with all their views: events and queries in any order.     *)
(***************************************************************************)
ViewsAlerts == Alerts({"HighErrorRate"}, {"critical"}, {"api"}, {0, 60, 400})

ViewsLogs == Entries({0, 60}, {"warning"}, {"api"}, {MsgDbTimeout100, MsgDbTimeout250})

ViewsAlert == steps < MaxViews /\ \E alert \in ViewsAlerts : process_alert(alert)

ViewsLog == steps < MaxViews /\ \E entry \in ViewsLogs : classify(entry)

ViewsNext ==
    \/ ViewsAlert
    \/ ViewsLog
    \/ GetActiveGroups
    \/ GetActionableErrors
    \/ GetAlertSummary
    \/ GetLogSummary

ViewsSpec == Init /\ [][ViewsNext]_vars

(***************************************************************************)
(* C24  What is fixed at creation stays fixed.  Once a group exists, its   *)
(* signature, its representative (the name of an alert group, the pattern  *)
(* of a log cluster) and its first_seen are changed by no later call:      *)
(* neither by an event nor by get_active_groups, get_actionable_errors or  *)
(* get_summary.                                                            *)
(***************************************************************************)
C24_CreationFieldsFrozen ==
    [][/\ \A s \in DOMAIN groups :
            /\ s \in DOMAIN groups'
            /\ groups'[s].signature = groups[s].signature
            /\ groups'[s].name = groups[s].name
            /\ groups'[s].first_seen = groups[s].first_seen
       /\ \A s \in DOMAIN clusters :
            /\ s \in DOMAIN clusters'
            /\ clusters'[s].signature = clusters[s].signature
            /\ clusters'[s].pattern = clusters[s].pattern
            /\ clusters'[s].first_seen = clusters[s].first_seen]_vars

\* a summary read after a cluster took a second, older entry and a group
\* exists: the cluster still carries the pattern and the time of its first
C24_Witness ==
    /\ call.op = "LogClassifier.get_summary"
    /\ groups # <<>>
    /\ \E s \in DOMAIN clusters :
          /\ TimesOf(log_members[s]) = <<60, 0>>
          /\ clusters[s].first_seen = 60
          /\ clusters[s].pattern = _normalize_message(log_members[s][1].event.message)

(***************************************************************************)
(* C25  first_seen is the oldest member.  After any sequence of events,    *)
(* every group's and every cluster's first_seen is the smallest timestamp  *)
(* among the events of its signature, also when they arrive out of         *)
(* timestamp order.                                                        *)
(***************************************************************************)
C25_FirstSeenIsOldest ==
    /\ \A s \in DOMAIN groups :
          groups[s].first_seen = Min(Range(TimesOf(alert_members[s])))
    /\ \A s \in DOMAIN clusters :
          clusters[s].first_seen = Min(Range(TimesOf(log_members[s])))

(***************************************************************************)
(* One alert firing again and again, 299 s apart (and once 1 s apart).     *)
(***************************************************************************)
SlidingTimes == {0, 299, 598, 599, 897}

SlidingAlerts == Alerts({"HighErrorRate"}, {"critical"}, {"api"}, SlidingTimes)

SlidingAlert == steps < MaxSliding /\ \E alert \in SlidingAlerts : process_alert(alert)

SlidingNext == SlidingAlert

SlidingSpec == Init /\ [][SlidingNext]_vars

(***************************************************************************)
(* C26  The suppression window slides.  In a sequence of alerts of one     *)
(* signature in which each alert comes less than SUPPRESSION_WINDOW after  *)
(* the one processed before it, only the first is emitted and every later  *)
(* one is suppressed, however long the sequence lasts in total.            *)
(***************************************************************************)
C26_WindowSlides ==
    \A s \in DOMAIN alert_members :
        LET times == TimesOf(alert_members[s])
            rets == RetsOf(alert_members[s])
        IN  (\A i \in 2..Len(times) : times[i] - times[i - 1] < SUPPRESSION_WINDOW) =>
                /\ rets[1] = TRUE
                /\ \A i \in 2..Len(rets) : rets[i] = FALSE

\* four alerts 299 s apart: the last comes 897 s after the only one emitted
C26_Witness ==
    \E s \in DOMAIN alert_members :
        /\ TimesOf(alert_members[s]) = <<0, 299, 598, 897>>
        /\ RetsOf(alert_members[s]) = <<TRUE, FALSE, FALSE, FALSE>>
        /\ suppressed_count = 3

(***************************************************************************)
(* C27  Accounting of suppressed_count.  In every state the deduplicator   *)
(* reaches, the number of process_alert calls that returned True plus      *)
(* suppressed_count is the sum of the group counts, and suppressed_count   *)
(* is at most that sum minus the number of groups; suppressed_count        *)
(* changes only in a call that returns False, and then by exactly one.     *)
(***************************************************************************)
\* the number of process_alert calls so far that returned True
RECURSIVE ReturnedTrueIn(_, _)
ReturnedTrueIn(members, keys) ==
    IF keys = {} THEN 0
    ELSE LET k == CHOOSE x \in keys : TRUE
         IN  Cardinality({i \in 1..Len(members[k]) : members[k][i].ret = TRUE})
               + ReturnedTrueIn(members, keys \ {k})

ReturnedTrue == ReturnedTrueIn(alert_members, DOMAIN alert_members)

C27_SuppressedAccounting ==
    [][/\ ReturnedTrue' + suppressed_count' = total_processed'
       /\ suppressed_count' <= total_processed' - Cardinality(DOMAIN groups')
       /\ (AlertCall /\ call'.ret = FALSE) => suppressed_count' = suppressed_count + 1
       /\ suppressed_count' # suppressed_count =>
             /\ AlertCall
             /\ call'.ret = FALSE
             /\ suppressed_count' = suppressed_count + 1]_vars

\* an alert emitted, repeated inside the window and emitted again after it:
\* one suppressed out of three, fewer than the count minus the one group
C27_Witness ==
    /\ Cardinality(DOMAIN groups) = 1
    /\ \E s \in DOMAIN groups : RetsOf(alert_members[s]) = <<TRUE, FALSE, TRUE>>
    /\ suppressed_count = 1
    /\ total_processed = 3

(***************************************************************************)
(* C28  Late alerts.  An alert of a known signature whose timestamp is     *)
(* earlier than the group's last_seen is suppressed whatever the size of   *)
(* the gap, and last_seen moves back to the alert's timestamp, which is    *)
(* the time the next alert of the signature is measured from.              *)
(***************************************************************************)
C28_LateAlertSuppressed ==
    [][\A s \in DOMAIN groups :
          (/\ AlertCall
           /\ _get_signature(call'.arg) = s
           /\ call'.arg.timestamp < groups[s].last_seen) =>
              /\ call'.ret = FALSE
              /\ suppressed_count' = suppressed_count + 1
              /\ groups'[s].count = groups[s].count + 1
              /\ groups'[s].last_seen = call'.arg.timestamp
              /\ groups'[s].last_seen < groups[s].last_seen]_vars

\* an alert 600 s late is suppressed, and the alert that follows at 400 is
\* emitted: 400 s after the late one, though before the first
C28_Witness ==
    \E s \in DOMAIN groups :
        /\ TimesOf(alert_members[s]) = <<600, 0, 400>>
        /\ RetsOf(alert_members[s]) = <<TRUE, FALSE, TRUE>>
        /\ groups[s].last_seen = 400
        /\ groups[s].first_seen = 600

(***************************************************************************)
(* CircuitBreakerTester (src/05-reliability/circuit_breaker_tester.py).    *)
(***************************************************************************)
CircuitState == {"closed", "open", "half_open"}

CircuitBreaker(name, service, failure_threshold, recovery_timeout) ==
    [name |-> name, service |-> service, failure_threshold |-> failure_threshold,
     recovery_timeout |-> recovery_timeout, state |-> "closed", failure_count |-> 0,
     last_failure |-> None]

setup_circuits ==
    <<CircuitBreaker("payment-cb", "payment-service", 5, 30),
      CircuitBreaker("inventory-cb", "inventory-service", 3, 60),
      CircuitBreaker("notification-cb", "notification-service", 10, 15)>>

FailedAboveThreshold(circuit, now) ==
    LET counted == [circuit EXCEPT !.failure_count = @ + 1, !.last_failure = now]
    IN  IF counted.failure_count > counted.failure_threshold
        THEN [counted EXCEPT !.state = "open"]
        ELSE counted

\* one round of the loop of simulate_failure
Failed(circuit, now) ==
    LET counted == [circuit EXCEPT !.failure_count = @ + 1, !.last_failure = now]
    IN  IF counted.failure_count >= counted.failure_threshold
        THEN [counted EXCEPT !.state = "open"]
        ELSE counted

RECURSIVE simulate_failure(_, _, _)
simulate_failure(circuit, count, now) ==
    IF count <= 0 THEN circuit
    ELSE simulate_failure(Failed(circuit, now), count - 1, now)

\* the circuit as test_opens_on_threshold leaves it
OpenedOnThreshold(circuit, now) ==
    LET reset == [circuit EXCEPT !.state = "closed", !.failure_count = 0]
    IN  simulate_failure(reset, reset.failure_threshold, now)

TestResult(circuit, scenario, passed, expected_state, details) ==
    [circuit |-> circuit.name, scenario |-> scenario, passed |-> passed,
     expected_state |-> expected_state, actual_state |-> circuit.state,
     details |-> details]

test_opens_on_threshold(circuit, now) ==
    LET after == OpenedOnThreshold(circuit, now)
    IN  TestResult(after, "Opens on failure threshold", after.state = "open", "open",
                   <<"After", after.failure_threshold, "failures">>)

\* values of datetime.now(), and the count arguments of simulate_failure
BreakerNow == {10, 20}

FailureCounts == {1, 2}

BreakerCall(op, arg, ret) ==
    /\ call' = [op |-> op, arg |-> arg, ret |-> ret]
    /\ UNCHANGED <<groups, groups_order, suppressed_count, clusters, clusters_order,
                   noise_count, alert_members, log_members, steps, threads, manager>>

SetupCircuits ==
    /\ circuits' = setup_circuits
    /\ simulated' = [i \in DOMAIN setup_circuits |-> 0]
    /\ BreakerCall("setup_circuits", <<>>, setup_circuits)

SimulateFailure ==
    \E i \in DOMAIN circuits, count \in FailureCounts, now \in BreakerNow :
        /\ circuits[i].failure_count + count <= MaxFailures
        /\ circuits' = [circuits EXCEPT ![i] = simulate_failure(@, count, now)]
        /\ simulated' = [simulated EXCEPT ![i] = @ + count]
        /\ BreakerCall("simulate_failure", [circuit |-> i, count |-> count], None)

TestOpensOnThreshold ==
    \E i \in DOMAIN circuits, now \in BreakerNow :
        /\ circuits' = [circuits EXCEPT ![i] = OpenedOnThreshold(@, now)]
        /\ simulated' = [simulated EXCEPT ![i] = circuits[i].failure_threshold]
        /\ BreakerCall("test_opens_on_threshold", [circuit |-> i],
                       test_opens_on_threshold(circuits[i], now))

BreakerNext == SetupCircuits \/ SimulateFailure \/ TestOpensOnThreshold

BreakerSpec == Init /\ [][BreakerNext]_vars

(***************************************************************************)
(* C29  Failure counting of a circuit breaker.  For a breaker that starts  *)
(* CLOSED with failure_count 0, after n simulated failures failure_count   *)
(* is n and the state is OPEN exactly when n >= failure_threshold; a       *)
(* simulate_failure call never takes a breaker out of OPEN and never       *)
(* lowers failure_count.                                                   *)
(***************************************************************************)
C29_OpenAtThreshold ==
    [][/\ \A i \in DOMAIN circuits' :
            /\ circuits'[i].failure_count = simulated'[i]
            /\ circuits'[i].state = "open" <=>
                  simulated'[i] >= circuits'[i].failure_threshold
       /\ call'.op = "simulate_failure" =>
            \A i \in DOMAIN circuits :
                /\ circuits[i].state = "open" => circuits'[i].state = "open"
                /\ circuits'[i].failure_count >= circuits[i].failure_count]_vars

\* one breaker a failure short of its threshold and still closed, one just
\* opened at its threshold, one failed on while open
C29_Witness ==
    /\ call.op = "simulate_failure"
    /\ \E i, j, k \in DOMAIN circuits :
          /\ circuits[i].failure_count = circuits[i].failure_threshold - 1
          /\ circuits[i].state = "closed"
          /\ circuits[j].failure_count = circuits[j].failure_threshold
          /\ circuits[j].state = "open"
          /\ circuits[k].failure_count > circuits[k].failure_threshold
          /\ circuits[k].state = "open"

(***************************************************************************)
(* RollbackManager (src/02-cicd/auto_rollback.py).                         *)
(***************************************************************************)
RollbackReason ==
    {"health_check_failed", "error_rate_exceeded", "latency_exceeded",
     "manual_trigger", "timeout"}

DeploymentVersion(version, image, deployed_at, replicas) ==
    [version |-> version, image |-> image, deployed_at |-> deployed_at,
     replicas |-> replicas, healthy_replicas |-> 0]

\* the event as _trigger_rollback appends it: completed and successful
RollbackEvent(from_version, to_version, reason, triggered_at, completed_at) ==
    [from_version |-> from_version, to_version |-> to_version, reason |-> reason,
     triggered_at |-> triggered_at, completed_at |-> completed_at, success |-> TRUE]

\* the versions main deploys and one more, with their images
RollbackVersions == {"v1.9.0", "v2.0.0", "v2.1.0"}

Image(version) == "app:" \o version

\* values of datetime.now(), in half seconds, and the reasons fed in
RollbackNow == {0, 10}

RollbackReasons == {"manual_trigger", "timeout"}

ManagerCall(op, arg, ret) ==
    /\ call' = [op |-> op, arg |-> arg, ret |-> ret]
    /\ steps' = steps + 1
    /\ UNCHANGED <<groups, groups_order, suppressed_count, clusters, clusters_order,
                   noise_count, alert_members, log_members, threads, circuits, simulated>>

register_deployment(version, image, replicas, now) ==
    LET deployment == DeploymentVersion(version, image, now, replicas)
    IN  /\ manager' = [manager EXCEPT !.versions = Append(@, deployment),
                                      !.current_version = deployment]
        /\ ManagerCall("register_deployment", [version |-> version], None)

\* time.sleep(0.5) lies between the two readings of the clock
_trigger_rollback(reason, now) ==
    IF Len(manager.versions) < 2
    THEN /\ UNCHANGED manager
         /\ ManagerCall("_trigger_rollback", [reason |-> reason], FALSE)
    ELSE LET previous == manager.versions[Len(manager.versions) - 1]
             current == manager.current_version
             event == RollbackEvent(current.version, previous.version, reason, now, now + 1)
         IN  /\ manager' = [manager EXCEPT !.rollback_history = Append(@, event),
                                           !.current_version = previous]
             /\ ManagerCall("_trigger_rollback", [reason |-> reason], FALSE)

\* the versions registered are distinct
RegisterDeployment ==
    /\ steps < MaxRollbackCalls
    /\ \E version \in RollbackVersions, now \in RollbackNow :
          /\ \A i \in DOMAIN manager.versions : manager.versions[i].version # version
          /\ register_deployment(version, Image(version), 3, now)

TriggerRollback ==
    /\ steps < MaxRollbackCalls
    /\ \E reason \in RollbackReasons, now \in RollbackNow : _trigger_rollback(reason, now)

RollbackNext == RegisterDeployment \/ TriggerRollback

RollbackSpec == Init /\ [][RollbackNext]_vars

(***************************************************************************)
(* C30  Rollbacks go to another version.  With distinct registered         *)
(* versions, after any sequence of register_deployment and                 *)
(* _trigger_rollback calls every event of rollback_history has a           *)
(* to_version different from its from_version, and a rollback with fewer   *)
(* than two registered versions returns False and leaves current_version   *)
(* and rollback_history unchanged.                                         *)
(***************************************************************************)
C30_RollbackToOtherVersion ==
    [][/\ \A i \in DOMAIN manager'.rollback_history :
            manager'.rollback_history[i].to_version #
                manager'.rollback_history[i].from_version
       /\ (call'.op = "_trigger_rollback" /\ Len(manager.versions) < 2) =>
            /\ call'.ret = FALSE
            /\ manager'.current_version = manager.current_version
            /\ manager'.rollback_history = manager.rollback_history]_vars

====
